---------------------------- MODULE Spec2Model ----------------------------
(***************************************************************************)
(* Model of the result-merging engine of the low level regression run     *)
(* (src/src/run_helpers/tdown_h.py): the status order (worseStatus), the  *)
(* per-file extractor (addModels with changeFieldPK and replaceField) and *)
(* the accumulator (combine_results with getFilesAndIP and getIP), and   *)
(* of the teardown that calls it (src/src/default_run/teardown.py).       *)
(*                                                                         *)
(* The code works on text with str.find, slicing and str.replace.  The    *)
(* model keeps the text: a Python str is a TLA+ string, positions are the *)
(* 0-based positions of Python, and Find, Slice and Replace below compute *)
(* what the Python operations compute.                                     *)
(***************************************************************************)
EXTENDS Integers, Sequences, FiniteSets, TLC

\* ------------------------------------------------------------------------
\* Python str operations (0-based positions, -1 for "not found")
\* ------------------------------------------------------------------------

\* s[a:b] for 0 <= a, 0 <= b already clamped to the length of s
Cut(s, a, b) == IF a >= b THEN "" ELSE SubSeq(s, a + 1, b)

\* a slice bound as Python clamps it: negative counts from the end
Clamp(s, i) == IF i < 0 THEN (IF Len(s) + i < 0 THEN 0 ELSE Len(s) + i)
               ELSE (IF i > Len(s) THEN Len(s) ELSE i)

\* s[a:b]
Slice(s, a, b) == Cut(s, Clamp(s, a), Clamp(s, b))

\* s[a:]
SliceFrom(s, a) == Cut(s, Clamp(s, a), Len(s))

\* s[:b]
SliceTo(s, b) == Cut(s, 0, Clamp(s, b))

\* the first position in lo..hi where p occurs in s, -1 if none
FindIn(s, p, lo, hi) ==
    LET hits == {i \in lo..hi : SubSeq(s, i + 1, i + Len(p)) = p}
    IN  IF hits = {} THEN -1 ELSE CHOOSE i \in hits : \A j \in hits : i <= j

\* s.find(p, start)
FindFrom(s, p, start) == FindIn(s, p, Clamp(s, start), Len(s) - Len(p))

\* s.find(p)
Find(s, p) == FindIn(s, p, 0, Len(s) - Len(p))

\* the last position in lo..hi where p occurs in s, -1 if none
RFindIn(s, p, lo, hi) ==
    LET hits == {i \in lo..hi : SubSeq(s, i + 1, i + Len(p)) = p}
    IN  IF hits = {} THEN -1 ELSE CHOOSE i \in hits : \A j \in hits : i >= j

\* s.rfind(p)
RFind(s, p) == RFindIn(s, p, 0, Len(s) - Len(p))

\* p in s
Contains(s, p) == Find(s, p) # -1

RECURSIVE Replace(_, _, _)
\* s.replace(old, new), old not empty: every occurrence, left to right
Replace(s, old, new) ==
    LET i == Find(s, old) IN
    IF i = -1 THEN s
    ELSE SliceTo(s, i) \o new \o Replace(SliceFrom(s, i + Len(old)), old, new)

\* str(n)
Str(n) == ToString(n)

RECURSIVE Strip(_)
\* s.strip() as int() applies it to its argument: blanks and line ends
Strip(s) ==
    IF s = "" THEN s
    ELSE IF SubSeq(s, 1, 1) \in {" ", "\n", "\t"} THEN Strip(SliceFrom(s, 1))
    ELSE IF SubSeq(s, Len(s), Len(s)) \in {" ", "\n", "\t"}
         THEN Strip(SliceTo(s, Len(s) - 1))
    ELSE s

Digit(c) == Find("0123456789", c)

IsDigits(s) == s # "" /\ \A i \in 1..Len(s) : Digit(SubSeq(s, i, i)) # -1

RECURSIVE DigitsValue(_)
DigitsValue(s) ==
    IF s = "" THEN 0
    ELSE DigitsValue(SliceTo(s, Len(s) - 1)) * 10 + Digit(SubSeq(s, Len(s), Len(s)))

\* whether int(s) returns (it raises ValueError otherwise): blanks around an
\* optional sign and decimal digits
IsInt(s) ==
    LET t == Strip(s) IN
    IF t # "" /\ SubSeq(t, 1, 1) \in {"-", "+"} THEN IsDigits(SliceFrom(t, 1))
    ELSE IsDigits(t)

\* int(s), for a string that IsInt
Int_(s) ==
    LET t == Strip(s) IN
    IF SubSeq(t, 1, 1) = "-" THEN 0 - DigitsValue(SliceFrom(t, 1))
    ELSE IF SubSeq(t, 1, 1) = "+" THEN DigitsValue(SliceFrom(t, 1))
    ELSE DigitsValue(t)

\* ------------------------------------------------------------------------
\* The status vocabulary (regression_constants.TEST_STATUS_DICT)
\* ------------------------------------------------------------------------

pass_status     == <<"Pass", "Passed">>
neutral_status  == <<"Warning">>
error_status    == <<"Error", "Fail", "Failed", "Fatal">>
off_status      == <<"Off">>
skipped_status  == <<"Skipped">>
wrong_os_status == <<"Wrong Embedded OS">>

\* the values of the dict in its insertion order, as addModels sums them
TEST_STATUS_DICT_values ==
    pass_status \o neutral_status \o error_status \o off_status \o
    skipped_status \o wrong_os_status

\* the ranking worseStatus builds: skipped, off, wrong os, pass, neutral, error
possible_test_statuses ==
    skipped_status \o off_status \o wrong_os_status \o pass_status \o
    neutral_status \o error_status

Range(f) == {f[i] : i \in DOMAIN f}

\* list.index(x)
Index(list, x) == CHOOSE i \in DOMAIN list :
                      list[i] = x /\ \A j \in DOMAIN list : list[j] = x => i <= j

Recognized == Range(possible_test_statuses)

\* worseStatus ranking by the six categories instead of the ten tokens
\* (what the ranking would be if synonyms shared a rank)
CategoryRank(s) ==
    CASE s \in Range(skipped_status)  -> 0
      [] s \in Range(off_status)      -> 1
      [] s \in Range(wrong_os_status) -> 2
      [] s \in Range(pass_status)     -> 3
      [] s \in Range(neutral_status)  -> 4
      [] s \in Range(error_status)    -> 5

\* the result of a call: what it returns, or the exception it raises
Ret(v)     == [raised |-> "none", value |-> v]
Raise(exc) == [raised |-> exc, value |-> ""]

\* worseStatus with the comparison of line 541 turned round: the one that
\* comes earlier in the ranking is returned
worseStatus_flipped(statOne, statTwo) ==
    IF statOne \notin Recognized /\ statTwo \notin Recognized
    THEN Raise("LookupError")
    ELSE IF statOne \notin Recognized THEN Ret(statTwo)
    ELSE IF statTwo \notin Recognized THEN Ret(statOne)
    ELSE IF Index(possible_test_statuses, statOne) < Index(possible_test_statuses, statTwo)
         THEN Ret(statOne) ELSE Ret(statTwo)

\* worseStatus comparing the categories instead of the places in the list:
\* between two statuses of one category the second is returned
worseStatus_by_category(statOne, statTwo) ==
    IF statOne \notin Recognized /\ statTwo \notin Recognized
    THEN Raise("LookupError")
    ELSE IF statOne \notin Recognized THEN Ret(statTwo)
    ELSE IF statTwo \notin Recognized THEN Ret(statOne)
    ELSE IF CategoryRank(statOne) > CategoryRank(statTwo)
         THEN Ret(statOne) ELSE Ret(statTwo)

\* worseStatus returning its first argument when only one is recognized
worseStatus_keep_first(statOne, statTwo) ==
    IF statOne \notin Recognized /\ statTwo \notin Recognized
    THEN Raise("LookupError")
    ELSE IF statOne \notin Recognized THEN Ret(statOne)
    ELSE IF statTwo \notin Recognized THEN Ret(statOne)
    ELSE IF Index(possible_test_statuses, statOne) > Index(possible_test_statuses, statTwo)
         THEN Ret(statOne) ELSE Ret(statTwo)

\* worseStatus refusing every status outside the vocabulary
worseStatus_strict(statOne, statTwo) ==
    IF statOne \notin Recognized \/ statTwo \notin Recognized
    THEN Raise("LookupError")
    ELSE IF Index(possible_test_statuses, statOne) > Index(possible_test_statuses, statTwo)
         THEN Ret(statOne) ELSE Ret(statTwo)

\* worseStatus(statOne, statTwo)
worseStatus(statOne, statTwo) ==
    IF statOne \notin Recognized /\ statTwo \notin Recognized
    THEN Raise("LookupError")
    ELSE IF statOne \notin Recognized THEN Ret(statTwo)
    ELSE IF statTwo \notin Recognized THEN Ret(statOne)
    ELSE IF Index(possible_test_statuses, statOne) > Index(possible_test_statuses, statTwo)
         THEN Ret(statOne) ELSE Ret(statTwo)

\* ------------------------------------------------------------------------
\* replaceField, getTestName, changeFieldPK
\* ------------------------------------------------------------------------

\* replaceField looking for the field from the start of the text instead
\* of from the pk
replaceField_any_pk(modelData, pk, fieldName, newFieldValue) ==
    LET start         == 0
        oldFieldStart == FindFrom(modelData, fieldName \o "\": ", start)
                             + Len(fieldName) + 2
        oldFieldEnd0  == FindFrom(modelData, ",", oldFieldStart)
        otherEnd      == FindFrom(modelData, "}", oldFieldStart)
        oldFieldEnd   == IF (otherEnd # -1 /\ otherEnd < oldFieldEnd0) \/ oldFieldEnd0 = -1
                         THEN otherEnd ELSE oldFieldEnd0
    IN  SliceTo(modelData, oldFieldStart) \o "\"" \o newFieldValue \o "\""
            \o SliceFrom(modelData, oldFieldEnd)

\* replaceField(modelData, pk, fieldName, newFieldValue)
replaceField(modelData, pk, fieldName, newFieldValue) ==
    LET start         == Find(modelData, "\"pk\": " \o Str(pk) \o ",")
        oldFieldStart == FindFrom(modelData, fieldName \o "\": ", start)
                             + Len(fieldName) + 2
        oldFieldEnd0  == FindFrom(modelData, ",", oldFieldStart)
        otherEnd      == FindFrom(modelData, "}", oldFieldStart)
        oldFieldEnd   == IF (otherEnd # -1 /\ otherEnd < oldFieldEnd0) \/ oldFieldEnd0 = -1
                         THEN otherEnd ELSE oldFieldEnd0
    IN  SliceTo(modelData, oldFieldStart) \o "\"" \o newFieldValue \o "\""
            \o SliceFrom(modelData, oldFieldEnd)

\* getTestName(modelData, testPK)
getTestName(modelData, testPK) ==
    LET string        == "\"testName\": "
        testData      == Find(modelData, "\"pk\": " \o Str(testPK) \o ",")
        testNameStart == FindFrom(modelData, string, testData + Len(string))
        testNameEnd   == FindFrom(modelData, ",", testNameStart)
    IN  Slice(modelData, testNameStart + Len(string) + 1, testNameEnd - 1)

\* changeFieldPK without the replace of line 248: the text keeps the old key
changeFieldPK_no_shift(modelData, fieldName, highestKey) ==
    LET fieldPK == "\"" \o fieldName \o "\": "
        pkStart == Find(modelData, fieldPK)
        pkEnd   == FindFrom(modelData, ",", pkStart)
        pk      == Slice(modelData, pkStart + Len(fieldName) + 4, pkEnd)
    IN  IF pkStart = -1 THEN Raise("UnboundLocalError")
        ELSE IF ~IsInt(pk) THEN Raise("ValueError")
        ELSE Ret(<<modelData, Int_(pk) + highestKey>>)

\* changeFieldPK(modelData, fieldName, highestKey): the value is the pair
\* [modelData, int(pk) + highestKey]; pk is unbound when the field is missing
changeFieldPK(modelData, fieldName, highestKey) ==
    LET fieldPK == "\"" \o fieldName \o "\": "
        pkStart == Find(modelData, fieldPK)
        pkEnd   == FindFrom(modelData, ",", pkStart)
        pk      == Slice(modelData, pkStart + Len(fieldName) + 4, pkEnd)
    IN  IF pkStart = -1 THEN Raise("UnboundLocalError")
        ELSE IF ~IsInt(pk) THEN Raise("ValueError")
        ELSE Ret(<<Replace(modelData, fieldPK \o pk,
                           fieldPK \o Str(Int_(pk) + highestKey)),
                   Int_(pk) + highestKey>>)

\* ------------------------------------------------------------------------
\* addModels.  Its locals are one record:
\*   fileData, models, osStatus, highestKey, chassisName, prevHighestKey,
\*   osKey, osName as in the code; testStatus is the dict as the sequence of
\*   its items in insertion order; errorFile the rows appended to
\*   errorFile.csv; pc is "loop" (in the while loop), "post" (after it),
\*   "done" (returned) or "raised" (left by the exception in raised).
\* ------------------------------------------------------------------------

chassisObject == "rsinterface.chassis"

\* key in testStatus
InDict(d, key) == \E i \in DOMAIN d : d[i].key = key

\* testStatus[key]
DictGet(d, key) == d[CHOOSE i \in DOMAIN d : d[i].key = key].value

\* testStatus[key] = value
DictSet(d, key, value) ==
    IF InDict(d, key)
    THEN [i \in DOMAIN d |-> IF d[i].key = key THEN [key |-> key, value |-> value]
                                               ELSE d[i]]
    ELSE Append(d, [key |-> key, value |-> value])

\* the state of addModels when it enters the loop (lines 279-300)
addModels_enter(fileData0, prevHighestKey, osKey, osName) ==
    LET fileData         == Replace(fileData0, "\r", "\n")
        hasChassis       == Find(fileData, chassisObject)
        start            == "chassisName\": "
        chassisNameStart == FindFrom(fileData, start, hasChassis)
        chassisNameEnd   == FindFrom(fileData, ",", chassisNameStart)
    IN  [pc |-> "loop", raised |-> "none",
         fileData |-> fileData, models |-> "[",
         osStatus |-> skipped_status[1], testStatus |-> <<>>,
         highestKey |-> 0,
         chassisName |-> IF hasChassis # -1
                         THEN Slice(fileData, chassisNameStart + Len(start) + 1,
                                    chassisNameEnd - 1)
                         ELSE "",
         prevHighestKey |-> prevHighestKey, osKey |-> osKey, osName |-> osName,
         errorFile |-> <<>>]

AmRaise(am, exc) == [am EXCEPT !.pc = "raised", !.raised = exc]

\* the end of an iteration without line 409: the model joins models and
\* the text stays as it was
addModels_emit_keeps_text(am, nextModel, prevPK, endModel) ==
    LET pk == Int_(prevPK) + am.prevHighestKey IN
    [am EXCEPT !.models   = @ \o Replace(nextModel, "\"pk\": " \o prevPK \o ",",
                                         "\"pk\": " \o Str(pk) \o ",")]

\* lines 400-409: the model gets its new primary key and joins models
addModels_emit(am, nextModel, prevPK, endModel) ==
    LET pk == Int_(prevPK) + am.prevHighestKey IN
    [am EXCEPT !.models   = @ \o Replace(nextModel, "\"pk\": " \o prevPK \o ",",
                                         "\"pk\": " \o Str(pk) \o ","),
               !.fileData = SliceFrom(@, endModel + 4)]

\* lines 349-370: a test
addModels_test(am, nextModel0, prevPK, endModel) ==
    LET nextModel == Replace(nextModel0, "\"fields\": {\n",
                             "\"fields\": {\n    \"os\": " \o Str(am.osKey) \o ",\n")
        pkStart   == FindFrom(nextModel, "\"pk\":", Find(nextModel, "rsinterface.test"))
        pkEnd     == FindFrom(nextModel, ",", pkStart)
        pk        == Slice(nextModel, pkStart + Len("\"pk\":"), pkEnd)
        testPK    == Int_(pk) + am.prevHighestKey
        testStatusStart == FindFrom(nextModel, "\"status\":", pkEnd)
        testStatusEnd   == FindFrom(nextModel, "}}", testStatusStart)
        thisTestStatus  ==
            IF testStatusStart = -1 THEN skipped_status[1]
            ELSE Slice(nextModel, testStatusStart + Len("\"status\":") + 2,
                       testStatusEnd - 1)
        testStatus == IF InDict(am.testStatus, testPK) THEN am.testStatus
                      ELSE DictSet(am.testStatus, testPK, thisTestStatus)
        worse      == worseStatus(am.osStatus, DictGet(testStatus, testPK))
    IN  IF pkStart = -1 THEN addModels_emit(am, nextModel, prevPK, endModel)
        ELSE IF ~IsInt(pk) THEN AmRaise(am, "ValueError")
        ELSE IF worse.raised # "none" THEN AmRaise(am, worse.raised)
        ELSE addModels_emit([am EXCEPT !.testStatus = testStatus,
                                       !.osStatus = worse.value],
                            nextModel, prevPK, endModel)

\* the scan of the vocabulary run from its first value to value i: the
\* first value found in the text, "" if none
FirstStatusIn_forward(nextModel, i) ==
    LET hits == {j \in 1..i : Find(nextModel, TEST_STATUS_DICT_values[j]) # -1}
    IN  IF hits = {} THEN ""
        ELSE TEST_STATUS_DICT_values[CHOOSE j \in hits : \A k \in hits : j <= k]

RECURSIVE FirstStatusIn(_, _)
\* the first status of the reversed vocabulary found in the text, "" if none:
\* i runs from the last value of TEST_STATUS_DICT to the first
FirstStatusIn(nextModel, i) ==
    IF i = 0 THEN ""
    ELSE IF Find(nextModel, TEST_STATUS_DICT_values[i]) # -1
         THEN TEST_STATUS_DICT_values[i]
    ELSE FirstStatusIn(nextModel, i - 1)

\* a log handled without line 388: the status of its test is tracked but
\* not folded into osStatus
addModels_log_no_fold(am, nextModel0, prevPK, endModel) ==
    LET ret        == changeFieldPK(nextModel0, "test", am.prevHighestKey)
        nextModel  == ret.value[1]
        testPK     == ret.value[2]
        testStatus0 == IF InDict(am.testStatus, testPK) THEN am.testStatus
                       ELSE DictSet(am.testStatus, testPK, skipped_status[1])
        status     == FirstStatusIn(nextModel, Len(TEST_STATUS_DICT_values))
        folded     == worseStatus(DictGet(testStatus0, testPK), status)
        testStatus == IF status = "" THEN testStatus0
                      ELSE DictSet(testStatus0, testPK, folded.value)
    IN  IF ret.raised # "none" THEN AmRaise(am, ret.raised)
        ELSE IF status # "" /\ folded.raised # "none" THEN AmRaise(am, folded.raised)
        ELSE addModels_emit([am EXCEPT !.testStatus = testStatus],
                            nextModel, prevPK, endModel)

\* lines 373-388: a log
addModels_log(am, nextModel0, prevPK, endModel) ==
    LET ret        == changeFieldPK(nextModel0, "test", am.prevHighestKey)
        nextModel  == ret.value[1]
        testPK     == ret.value[2]
        testStatus0 == IF InDict(am.testStatus, testPK) THEN am.testStatus
                       ELSE DictSet(am.testStatus, testPK, skipped_status[1])
        status     == FirstStatusIn(nextModel, Len(TEST_STATUS_DICT_values))
        folded     == worseStatus(DictGet(testStatus0, testPK), status)
        testStatus == IF status = "" THEN testStatus0
                      ELSE DictSet(testStatus0, testPK, folded.value)
        worse      == worseStatus(am.osStatus, DictGet(testStatus, testPK))
    IN  IF ret.raised # "none" THEN AmRaise(am, ret.raised)
        ELSE IF status # "" /\ folded.raised # "none" THEN AmRaise(am, folded.raised)
        ELSE IF worse.raised # "none" THEN AmRaise(am, worse.raised)
        ELSE addModels_emit([am EXCEPT !.testStatus = testStatus,
                                       !.osStatus = worse.value],
                            nextModel, prevPK, endModel)

\* lines 391-398: a message (fieldName "log"), a cpu or a dut (fieldName "test")
addModels_related(am, nextModel0, fieldName, prevPK, endModel) ==
    LET ret == changeFieldPK(nextModel0, fieldName, am.prevHighestKey) IN
    IF ret.raised # "none" THEN AmRaise(am, ret.raised)
    ELSE addModels_emit(am, ret.value[1], prevPK, endModel)

\* lines 325-409: a model that is not a chassis
addModels_model(am, nextModel0, endModel) ==
    LET nextModel == IF Contains(nextModel0, "}} ]")
                     THEN Replace(nextModel0, "}} ]", "}}") ELSE nextModel0
        pkLoc     == Find(nextModel, "\"pk\": ")
        comma     == FindFrom(nextModel, ",", pkLoc + 6)
        prevPK    == Slice(nextModel, pkLoc + 6, comma)
        am1       == IF Int_(prevPK) > am.highestKey
                     THEN [am EXCEPT !.highestKey = Int_(prevPK)] ELSE am
    IN  IF pkLoc = -1 THEN [am EXCEPT !.pc = "post"]
        ELSE IF ~IsInt(prevPK) THEN AmRaise(am, "ValueError")
        ELSE IF Find(nextModel, "rsinterface.test") # -1
             THEN addModels_test(am1, nextModel, prevPK, endModel)
        ELSE IF Find(nextModel, "rsinterface.log") # -1
             THEN addModels_log(am1, nextModel, prevPK, endModel)
        ELSE IF Find(nextModel, "rsinterface.message") # -1
             THEN addModels_related(am1, nextModel, "log", prevPK, endModel)
        ELSE IF Find(nextModel, "rsinterface.cpu") # -1
                 \/ Find(nextModel, "rsinterface.dut") # -1
             THEN addModels_related(am1, nextModel, "test", prevPK, endModel)
        ELSE addModels_emit(am1, nextModel, prevPK, endModel)

\* the iteration refusing a model that has no closing braces
addModels_iteration_strict(am) ==
    LET startModel == Find(am.fileData, "{")
        endModel   == Find(am.fileData, "}}")
        nextModel  == Slice(am.fileData, startModel, endModel + 4)
    IN  IF startModel = -1 THEN [am EXCEPT !.pc = "post"]
        ELSE IF endModel = -1 THEN AmRaise(am, "ValueError")
        ELSE IF Find(nextModel, chassisObject) # -1
             THEN [am EXCEPT !.fileData = SliceFrom(@, endModel + 4)]
        ELSE addModels_model(am, nextModel, endModel)

\* one iteration of the while loop (lines 303-409)
addModels_iteration(am) ==
    LET startModel == Find(am.fileData, "{")
        endModel   == Find(am.fileData, "}}")
        nextModel  == Slice(am.fileData, startModel, endModel + 4)
    IN  IF startModel = -1 THEN [am EXCEPT !.pc = "post"]
        ELSE IF Find(nextModel, chassisObject) # -1
             THEN [am EXCEPT !.fileData = SliceFrom(@, endModel + 4)]
        ELSE addModels_model(am, nextModel, endModel)

RECURSIVE addModels_rewrite(_, _)
\* lines 412-420: the statuses that are no pass status are written back,
\* from item i of testStatus on
addModels_rewrite(am, i) ==
    IF i > Len(am.testStatus) THEN am
    ELSE LET key    == am.testStatus[i].key
             value  == am.testStatus[i].value
             models == replaceField(am.models, key, "status", value)
         IN  IF value \in Range(pass_status) THEN addModels_rewrite(am, i + 1)
             ELSE addModels_rewrite(
                      [am EXCEPT !.models = models,
                                 !.errorFile = Append(@, <<am.osName,
                                                   getTestName(models, key)>>)],
                      i + 1)

\* the return without line 424: the key counter is returned as it was given
addModels_return_keeps_counter(am) ==
    LET am1 == addModels_rewrite(am, 1) IN
    [am1 EXCEPT !.pc = "done", !.models = @ \o "]"]

\* lines 412-427: after the loop
addModels_return(am) ==
    LET am1 == addModels_rewrite(am, 1) IN
    [am1 EXCEPT !.pc = "done", !.models = @ \o "]",
                !.prevHighestKey = @ + am1.highestKey]

RECURSIVE addModels_run(_)
\* the call run to its end
addModels_run(am) ==
    IF am.pc = "loop" THEN addModels_run(addModels_iteration(am))
    ELSE IF am.pc = "post" THEN addModels_return(am)
    ELSE am

\* addModels(fileData, prevHighestKey, osKey, osName): the final locals; the
\* returned list is [models, prevHighestKey, osStatus, chassisName]
addModels(fileData, prevHighestKey, osKey, osName) ==
    addModels_run(addModels_enter(fileData, prevHighestKey, osKey, osName))

\* ------------------------------------------------------------------------
\* Result files as the test runner writes them: a bracketed list of models
\*   {"model": "rsinterface.<kind>", "pk": <int>, "fields": {\n    ...}}
\* separated by a comma and a line end and closed by " ]".  A file is
\* described by its models (kind, pk, ref: the pk of the test or log it
\* belongs to, status: the status or log text, "" for none) and its tail.
\* The shape of a model says what is wrong with it: "ok" nothing, "no_ref"
\* the relation field is missing, "no_pk" the pk field is missing, "bad_pk"
\* the pk is no integer, "no_open" the block has lost its start up to the
\* fields, so that its closing braces come before the next opening brace.
\* ------------------------------------------------------------------------

Malformed(kind, pk, ref, status, shape) ==
    [kind |-> kind, pk |-> pk, ref |-> ref, status |-> status, shape |-> shape]

Model(kind, pk, ref, status) == Malformed(kind, pk, ref, status, "ok")

\* the relation field of a model, with the comma and line end after it
RenderRef(m, name) ==
    IF m.shape = "no_ref" THEN ""
    ELSE "    \"" \o name \o "\": " \o Str(m.ref) \o ",\n"

RenderFields(m) ==
    CASE m.kind = "test" ->
           "    \"testName\": \"t" \o Str(m.pk) \o "\""
           \o (IF m.status = "" THEN ""
               ELSE ",\n    \"status\": \"" \o m.status \o "\"")
      [] m.kind = "log" ->
           RenderRef(m, "test") \o "    \"text\": \"" \o m.status \o "\""
      [] m.kind = "message" ->
           RenderRef(m, "log") \o "    \"text\": \"m\""
      [] m.kind \in {"cpu", "dut"} ->
           RenderRef(m, "test") \o "    \"name\": \"n\""
      [] m.kind = "chassis" ->
           "    \"chassisName\": \"DNR\",\n    \"ipNum\": \"192.168.101.5\""

\* the pk field of a model, with the comma and space after it
RenderPk(m) ==
    CASE m.shape = "no_pk"  -> ""
      [] m.shape = "bad_pk" -> "\"pk\": null, "
      [] OTHER              -> "\"pk\": " \o Str(m.pk) \o ", "

Render(m) ==
    IF m.shape = "no_open" THEN RenderFields(m) \o "}}"
    ELSE "{\"model\": \"rsinterface." \o m.kind \o "\", " \o RenderPk(m)
         \o "\"fields\": {\n" \o RenderFields(m) \o "}}"

RECURSIVE RenderAll(_)
RenderAll(ms) ==
    IF ms = <<>> THEN ""
    ELSE IF Len(ms) = 1 THEN Render(ms[1])
    ELSE Render(ms[1]) \o ",\n" \o RenderAll(Tail(ms))

\* a final model cut off inside its block: no closing braces
TruncatedModel ==
    "{\"model\": \"rsinterface.test\", \"pk\": 7, \"fields\": {\n    \"testNa"

\* the text of a file: tail "closed" ends the list, "truncated" ends in a
\* model cut off mid-block
FileText(f) ==
    "[" \o RenderAll(f.models)
    \o (IF f.tail = "closed" THEN " ]"
        ELSE (IF f.models = <<>> THEN "" ELSE ",\n") \o TruncatedModel)

\* ------------------------------------------------------------------------
\* Reading an emitted text back, as a consumer of the archive reads it:
\* the blocks closed by "}}", each with its model name, pk, status and
\* relation fields (-1 and "" for what the block does not hold)
\* ------------------------------------------------------------------------

\* the text between the first `open` and the next `close` after it
Between(block, open, close) ==
    LET i == Find(block, open)
        j == FindFrom(block, close, i + Len(open))
    IN  IF i = -1 \/ j = -1 THEN "" ELSE Slice(block, i + Len(open), j)

\* the integer field `name` of a block
IntField(block, name) ==
    LET i   == Find(block, "\"" \o name \o "\": ")
        a   == i + Len(name) + 4
        c   == FindFrom(block, ",", a)
        b   == FindFrom(block, "}", a)
        e   == IF c = -1 \/ (b # -1 /\ b < c) THEN b ELSE c
        txt == Slice(block, a, e)
    IN  IF i = -1 \/ e = -1 \/ ~IsInt(txt) THEN -1 ELSE Int_(txt)

ReadBlock(block) ==
    [model   |-> Between(block, "\"model\": \"rsinterface.", "\""),
     pk      |-> IntField(block, "pk"),
     os      |-> IntField(block, "os"),
     chassis |-> IntField(block, "chassis"),
     test    |-> IntField(block, "test"),
     log     |-> IntField(block, "log"),
     ipNum   |-> Between(block, "\"ipNum\": \"", "\""),
     osName  |-> Between(block, "\"operatingSystem\": \"", "\""),
     status  |-> IF Find(block, "\"status\": \"") # -1
                 THEN Between(block, "\"status\": \"", "\"")
                 ELSE Between(block, "\"status\":\"", "\"")]

RECURSIVE ReadRecords(_)
ReadRecords(text) ==
    LET i == Find(text, "}}") IN
    IF i = -1 THEN <<>>
    ELSE <<ReadBlock(SliceTo(text, i + 2))>> \o ReadRecords(SliceFrom(text, i + 2))

\* ------------------------------------------------------------------------
\* getIP, getFilesAndIP
\* ------------------------------------------------------------------------

EmptyDict == [x \in {} |-> 0]

\* the int -1 that getIP returns when the name does not match
NoIP == "<int -1>"

\* getIP(fileName)
getIP(fileName) ==
    LET start == Find(fileName, "test_")
        ext   == Find(fileName, ".json")
    IN  IF start # -1 /\ ext # -1 THEN Slice(fileName, start + 5, ext - 7)
        ELSE NoIP

\* the files of a listing that do not hold the trailer
Unmarked(listing) ==
    SelectSeq(listing, LAMBDA f : Find(f.data, "File in database") = -1)

RECURSIVE IPsOf(_)
\* the ip list of getFilesAndIP: the ip of each unmarked file that has one
IPsOf(files) ==
    IF files = <<>> THEN <<>>
    ELSE (IF getIP(files[1].name) # NoIP THEN <<getIP(files[1].name)>> ELSE <<>>)
         \o IPsOf(Tail(files))

\* getFilesAndIP(directory) on the listing of the directory: files are the
\* names left after the marked ones are removed, inDB maps each of them to
\* False, ip is the list of their ips; all are empty when the directory
\* does not exist (lines 462-466: the error of listdir is caught)
getFilesAndIP(exists, listing) ==
    IF ~exists THEN [files |-> <<>>, inDB |-> EmptyDict, ip |-> <<>>]
    ELSE
    [files |-> [i \in DOMAIN Unmarked(listing) |-> Unmarked(listing)[i].name],
     inDB  |-> [n \in {Unmarked(listing)[i].name : i \in DOMAIN Unmarked(listing)}
                    |-> FALSE],
     ip    |-> IPsOf(Unmarked(listing))]

\* ------------------------------------------------------------------------
\* combine_results.  Its locals are one record: the names of the code, a
\* dict being the function from its keys to its values; pc is "start",
\* "files" (in the loops of lines 141-184, at file k of OS idx), "finish"
\* (before line 191), "returned" or "raised".
\* ------------------------------------------------------------------------

\* VM_DICTS[os_name]['short_name'] of the OSes of the model
short_name(os_name) ==
    CASE os_name = "linux_centos" -> "centos"
      [] os_name = "windows_10"   -> "win10"

\* d[k] = v
Put(d, k, v) == [x \in DOMAIN d \cup {k} |-> IF x = k THEN v ELSE d[x]]

\* x in list
InList(list, x) == \E i \in DOMAIN list : list[i] = x

\* the orders list(set) may give the elements of a set
Orders(S) == {q \in [1..Cardinality(S) -> S] : \A x \in S : \E i \in DOMAIN q : q[i] = x}

\* the locals on entry
combine_enter ==
    [pc |-> "start", raised |-> "none", stringdate |-> "",
     highest_key |-> 1, date_key |-> 0, json_data_combined |-> "",
     test_result_status |-> skipped_status[1],
     chassis_key |-> EmptyDict, chassis_status |-> EmptyDict,
     chassis_name |-> EmptyDict, os_key |-> EmptyDict, os_status |-> EmptyDict,
     ip_per_os |-> <<>>, file_per_os |-> <<>>,
     all_os_objects |-> "\n", all_chassis |-> <<>>, all_chassis_bound |-> FALSE,
     ret |-> [models |-> "", prevHighestKey |-> 0, osStatus |-> "",
              chassisName |-> ""],
     idx |-> 1, k |-> 1]

CrRaise(cr, exc) == [cr EXCEPT !.pc = "raised", !.raised = exc]

RECURSIVE ReadAll(_)
\* lines 84-89: the data of the hardware regression files, one after another
ReadAll(files) ==
    IF files = <<>> THEN "" ELSE files[1].data \o ReadAll(Tail(files))

RECURSIVE allocate_os(_, _, _, _)
\* lines 134-138, from OS idx on
allocate_os(cr, os_list, ip, idx) ==
    IF idx > Len(os_list) THEN cr
    ELSE IF InList(cr.ip_per_os[idx], ip)
         THEN allocate_os(
                  [cr EXCEPT !.os_key = Put(@, os_list[idx] \o ip, cr.highest_key),
                             !.os_status = Put(@, os_list[idx] \o ip, skipped_status[1]),
                             !.highest_key = @ + 1],
                  os_list, ip, idx + 1)
    ELSE allocate_os(cr, os_list, ip, idx + 1)

RECURSIVE allocate_keys(_, _, _)
\* lines 124-138, from element i of all_chassis on
allocate_keys(cr, os_list, i) ==
    IF i > Len(cr.all_chassis) THEN cr
    ELSE LET ip == cr.all_chassis[i] IN
         allocate_keys(
             allocate_os([cr EXCEPT !.chassis_key = Put(@, ip, cr.highest_key),
                                    !.highest_key = @ + 1,
                                    !.chassis_status = Put(@, ip, skipped_status[1]),
                                    !.chassis_name = Put(@, ip, "")],
                         os_list, ip, 1),
             os_list, i + 1)

RECURSIVE next_file(_, _, _)
\* the loops of lines 141-142 advanced to the next file there is, from file
\* k of OS idx on; "finish" when there is none
next_file(cr, idx, k) ==
    IF idx > Len(cr.file_per_os) THEN [cr EXCEPT !.pc = "finish"]
    ELSE IF k > Len(cr.file_per_os[idx]) THEN next_file(cr, idx + 1, 1)
    ELSE [cr EXCEPT !.pc = "files", !.idx = idx, !.k = k]

\* lines 48-138 without the except of getFilesAndIP: the error of listdir
\* for a result directory that is missing ends the call
combine_prepare_needs_all(cr, os_list, exists, listings, logic_exists, logic, stringdate, order) ==
    LET got == [idx \in DOMAIN os_list |-> getFilesAndIP(TRUE, listings[idx])]
        cr1 == [cr EXCEPT
                  !.stringdate = stringdate,
                  !.date_key = cr.highest_key,
                  !.highest_key = cr.highest_key + 1,
                  !.json_data_combined = IF logic_exists THEN ReadAll(logic) ELSE "",
                  !.ip_per_os = [idx \in DOMAIN os_list |-> got[idx].ip],
                  !.file_per_os = [idx \in DOMAIN os_list |-> got[idx].files]]
        cr2 == [cr1 EXCEPT
                  !.all_chassis = IF Len(os_list) = 1 THEN cr1.ip_per_os[1] ELSE order,
                  !.all_chassis_bound = TRUE]
    IN  IF \E idx \in DOMAIN os_list : ~exists[idx] THEN CrRaise(cr1, "OSError")
        ELSE IF Len(os_list) = 0 THEN [cr1 EXCEPT !.pc = "finish"]
        ELSE next_file(allocate_keys(cr2, os_list, 1), 1, 1)

\* lines 48-138: up to the keys set aside.  listings[idx] is the listing of
\* the result directory of os_list[idx] and exists[idx] tells whether the
\* directory is there; logic is the listing of the
\* hardware regression directory, if it exists; order is the order in which
\* list(set) gives the chassis
combine_prepare(cr, os_list, exists, listings, logic_exists, logic, stringdate, order) ==
    LET got == [idx \in DOMAIN os_list |-> getFilesAndIP(exists[idx], listings[idx])]
        cr1 == [cr EXCEPT
                  !.stringdate = stringdate,
                  !.date_key = cr.highest_key,
                  !.highest_key = cr.highest_key + 1,
                  !.json_data_combined = IF logic_exists THEN ReadAll(logic) ELSE "",
                  !.ip_per_os = [idx \in DOMAIN os_list |-> got[idx].ip],
                  !.file_per_os = [idx \in DOMAIN os_list |-> got[idx].files]]
        cr2 == [cr1 EXCEPT
                  !.all_chassis = IF Len(os_list) = 1 THEN cr1.ip_per_os[1] ELSE order,
                  !.all_chassis_bound = TRUE]
    IN  IF Len(os_list) = 0 THEN [cr1 EXCEPT !.pc = "finish"]
        ELSE next_file(allocate_keys(cr2, os_list, 1), 1, 1)

\* the chassis of the run: lines 105-113 join the ip lists of the OSes
ChassisUnion(os_list, exists, listings) ==
    UNION {Range(getFilesAndIP(exists[idx], listings[idx]).ip) : idx \in DOMAIN os_list}

\* lines 169-175: the OS object is added, or its status replaced
os_object(cr, osName, ip, status) ==
    IF ~Contains(cr.all_os_objects, "\"pk\": " \o Str(cr.os_key[osName \o ip]) \o ",")
    THEN cr.all_os_objects
         \o "{\"model\": \"rsinterface.os\", \"pk\": " \o Str(cr.os_key[osName \o ip])
         \o ", \"fields\": {\n" \o "    \"chassis\": " \o Str(cr.chassis_key[ip])
         \o ",\n    \"operatingSystem\": \"" \o osName
         \o "\",\n    \"status\": \"" \o status \o "\"}}"
    ELSE replaceField(cr.all_os_objects, cr.os_key[osName \o ip], "status", status)

\* lines 163-178: what addModels returned is folded into the statuses of
\* the OS (os_st), the chassis (ch_st) and the run (run_st)
combine_fold(cr, osName, ip, ret, os_st, ch_st, run_st) ==
    next_file(
        [cr EXCEPT
           !.ret = [models |-> ret.models, prevHighestKey |-> ret.prevHighestKey,
                    osStatus |-> ret.osStatus, chassisName |-> ret.chassisName],
           !.json_data_combined = @ \o ret.models,
           !.highest_key = ret.prevHighestKey,
           !.os_status = Put(@, osName \o ip, os_st),
           !.chassis_status = Put(@, ip, ch_st),
           !.test_result_status = run_st,
           !.all_os_objects = os_object(cr, osName, ip, os_st),
           !.chassis_name = IF cr.chassis_name[ip] = ""
                            THEN Put(@, ip, ret.chassisName) ELSE @],
        cr.idx, cr.k + 1)

\* line 167
combine_run_status(cr, osName, ip, ret, os_st, ch_st, run_st) ==
    IF run_st.raised # "none" THEN CrRaise(cr, run_st.raised)
    ELSE combine_fold(cr, osName, ip, ret, os_st, ch_st, run_st.value)

\* line 166
combine_chassis_status(cr, osName, ip, ret, os_st, ch_st) ==
    IF ch_st.raised # "none" THEN CrRaise(cr, ch_st.raised)
    ELSE combine_run_status(cr, osName, ip, ret, os_st, ch_st.value,
                            worseStatus(cr.test_result_status, ch_st.value))

\* line 165
combine_os_status(cr, osName, ip, ret, os_st) ==
    IF os_st.raised # "none" THEN CrRaise(cr, os_st.raised)
    ELSE combine_chassis_status(cr, osName, ip, ret, os_st.value,
                                worseStatus(cr.chassis_status[ip], os_st.value))

\* lines 162-165
combine_extracted(cr, osName, ip, ret) ==
    IF ret.pc = "raised" THEN CrRaise(cr, ret.raised)
    ELSE combine_os_status(cr, osName, ip, ret,
                           worseStatus(cr.os_status[osName \o ip], ret.osStatus))

\* lines 154-162: ip is what getIP gave for the name of the file
combine_file_of(cr, osName, ip, data) ==
    IF ip = NoIP THEN CrRaise(cr, "TypeError")
    ELSE IF (osName \o ip) \notin DOMAIN cr.os_key THEN CrRaise(cr, "KeyError")
    ELSE combine_extracted(cr, osName, ip,
             addModels(data, cr.highest_key, cr.os_key[osName \o ip], osName))

\* lines 142-184 for the file at k of OS idx, whose data is `data`: the
\* locals after it (the trailer is written by the action)
combine_file(cr, os_list, data) ==
    combine_file_of(cr, os_list[cr.idx], getIP(cr.file_per_os[cr.idx][cr.k]), data)

RECURSIVE allChassisObjects(_, _)
\* lines 192-197, from element i of all_chassis on
allChassisObjects(cr, i) ==
    IF i > Len(cr.all_chassis) THEN ""
    ELSE LET ip     == cr.all_chassis[i]
             fullIP == "192.168." \o Replace(ip, "_", ".")
         IN  "{\"model\": \"rsinterface.chassis\", \"pk\": " \o Str(cr.chassis_key[ip])
             \o ", \"fields\": {\n    \"chassisName\": \"" \o cr.chassis_name[ip]
             \o "\",\n    \"ipNum\": \"" \o fullIP
             \o "\",\n    \"status\": \"" \o cr.chassis_status[ip] \o "\"}},\n"
             \o allChassisObjects(cr, i + 1)

\* line 207: the punctuation between the merged lists is put right
Formatted(text) ==
    Replace(Replace(Replace(Replace(Replace(text, "][", ""), "}{", "},\n{"),
                            ", {", ",\n{"), ",  {", ",\n{"), "}\n{", "},\n{")

\* lines 191-207: the text that is written to the archive
combine_text(cr, tags) ==
    LET newDateObject  == "{\"model\": \"rsinterface.date\", \"pk\": " \o Str(cr.date_key)
                          \o ", \"fields\": {\n    \"date\": \"" \o cr.stringdate
                          \o "\",\n    \"status\": \"" \o tags \o "\" }} ]"
        closingBracket == RFind(cr.json_data_combined, "]")
    IN  Formatted(SliceTo(cr.json_data_combined, closingBracket)
                  \o cr.all_os_objects \o allChassisObjects(cr, 1) \o newDateObject)

\* ------------------------------------------------------------------------
\* run_teardown (default_run/teardown.py).  Its steps after the tags: power
\* off, merge, XML commit, temp directory, logs.  pc is the step it is
\* before ("merging" inside combine_results), "done" or "raised".
\* ------------------------------------------------------------------------

\* the call on entry, after the tags of lines 38-47
teardown_enter(nopower, nodb, noxmlcommit) ==
    [pc |-> "power", raised |-> "none",
     nopower |-> nopower, nodb |-> nodb, noxmlcommit |-> noxmlcommit,
     powered_off |-> FALSE, committed |-> FALSE, temp_emptied |-> FALSE,
     logs_closed |-> FALSE]

\* lines 51-54
teardown_power(td) ==
    [td EXCEPT !.powered_off = ~td.nopower, !.pc = "merge"]

\* lines 58-60 when combine_results has returned
teardown_merged(td) == [td EXCEPT !.pc = "commit"]

\* lines 58-60 when combine_results has raised: nothing catches it, in
\* run_teardown or in its caller
teardown_merge_raised(td, exc) == [td EXCEPT !.pc = "raised", !.raised = exc]

\* lines 64-70
teardown_commit(td) ==
    [td EXCEPT !.committed = ~td.noxmlcommit, !.pc = "empty"]

\* lines 74-76
teardown_empty_temp(td) == [td EXCEPT !.temp_emptied = TRUE, !.pc = "close"]

\* lines 80-86
teardown_close(td) == [td EXCEPT !.logs_closed = TRUE, !.pc = "done"]

\* ------------------------------------------------------------------------
\* The firmware update of the IOMs (run_helpers/setup_h.py and
\* regression_modules/iom.py).  An IOM is described by whether it has a
\* firmware file and by what LoadFW does at each attempt: "ok" (return code
\* 0), "fail" (another return code) or "raise" (subprocess.run raises).
\* ------------------------------------------------------------------------

\* the attempts __update_pdna_fware_child asks for
Attempts == 3

RECURSIVE update_firmware_pdna_from(_, _, _)
\* the loop of IOM.update_firmware_pdna from attempt i on
update_firmware_pdna_from(iom, attempts, i) ==
    IF i > attempts THEN [raised |-> "none", value |-> <<FALSE, attempts>>]
    ELSE IF i > Len(iom.run) \/ iom.run[i] = "fail"
         THEN update_firmware_pdna_from(iom, attempts, i + 1)
    ELSE IF iom.run[i] = "raise" THEN [raised |-> "OSError", value |-> <<>>]
    ELSE [raised |-> "none", value |-> <<TRUE, i>>]

\* IOM.update_firmware_pdna(firmware_path, load_exe_path, attempts): the
\* pair (success, attempts)
update_firmware_pdna(iom, attempts) == update_firmware_pdna_from(iom, attempts, 1)

\* the Python values a child returns as its result, by their repr: the
\* bool of update_firmware_pdna, or the int -1 when the update raised
PyBool(b) == IF b THEN "True" ELSE "False"

\* __update_pdna_fware_child(iom, firmware_path, load_exe_path): the pair
\* (iom, result)
update_pdna_fware_child(iom) ==
    LET ret == update_firmware_pdna(iom, Attempts) IN
    IF ret.raised # "none" THEN <<iom, "-1">>
    ELSE <<iom, PyBool(ret.value[1])>>

\* the truth value Python gives to a result in `if i[1]`: False and 0 are
\* false, True and every other int are true
Truthy(x) == x \notin {"False", "0"}

\* the place of a result that pool.starmap has not got yet
Pending == <<>>

\* update_all_pdna_firmware on entry
update_all_enter(ioms) ==
    [pc |-> "collect", ioms |-> ioms, param_list |-> <<>>, results |-> <<>>,
     success |-> <<>>, fail |-> <<>>]

\* lines 173-182: the IOMs that have a firmware file
update_all_collect(f) ==
    LET param_list == SelectSeq(f.ioms, LAMBDA iom : iom.firmware) IN
    [f EXCEPT !.param_list = param_list,
              !.results = [i \in DOMAIN param_list |-> Pending],
              !.pc = "pool"]

\* lines 184-187: child i of the pool returns
update_all_child(f, i) ==
    [f EXCEPT !.results[i] = update_pdna_fware_child(f.param_list[i])]

\* lines 189-198: the results are sorted into success and fail
update_all_report(f) ==
    [f EXCEPT !.success = [i \in DOMAIN SelectSeq(f.results, LAMBDA r : Truthy(r[2]))
                              |-> SelectSeq(f.results, LAMBDA r : Truthy(r[2]))[i][1]],
              !.fail = [i \in DOMAIN SelectSeq(f.results, LAMBDA r : ~Truthy(r[2]))
                           |-> SelectSeq(f.results, LAMBDA r : ~Truthy(r[2]))[i][1]],
              !.pc = "done"]

\* ------------------------------------------------------------------------
\* State
\* ------------------------------------------------------------------------

VARIABLES
    \* a fold of statuses with worseStatus: the statuses to fold, those still
    \* to come, the status folded so far, and the last call with its result
    foldOrig, foldTodo, foldAcc, statOne, statTwo, wsRet,
    \* a call of addModels: the file it is given (as described above), the
    \* key counter it is given, and its locals
    file, prevKey, am,
    \* a run of combine_results: config['vms'], whether the result directory
    \* of each OS exists and its listing (name and data of each file), whether
    \* the hardware regression directory exists and its listing, whether the
    \* archive can be written, the archive file ("" while not written), the
    \* locals, and for each file extracted (in this call or one before) the
    \* OS, the name, the ip and the status addModels returned
    os_list, vm_exists, vm_results, logic_exists, logic_results,
    archive_writable, archive, cr, extracted,
    \* a call of run_teardown: config['nopower'], config['nodb'] and
    \* config['noxmlcommit'], where it is, and the steps it has done
    td,
    \* a call of update_all_pdna_firmware: the IOMs it is given, its locals
    \* param_list, results (what the children have returned so far, <<>> for
    \* those still running), success and fail, and where it is
    fw

statusVars == <<foldOrig, foldTodo, foldAcc, statOne, statTwo, wsRet>>
addVars    == <<file, prevKey, am>>
mergeVars  == <<os_list, vm_exists, vm_results, logic_exists, logic_results,
                archive_writable, archive, cr, extracted>>
vars       == <<statusVars, addVars, mergeVars, td, fw>>

\* ------------------------------------------------------------------------
\* Bounds and inputs
\* ------------------------------------------------------------------------

\* the longest sequence of statuses folded
MaxFold == 3
\* the most models in a file given to addModels alone
MaxModels == 3
\* the most result files in a run of combine_results
MaxFiles == 3

\* the statuses folded: the vocabulary and two values outside it
StatusInputs == Recognized \cup {"Aborted", "pass"}

\* the models a file is made of, one per pk, each with its variants
ModelPool ==
    << {Model("test", 1, 0, st) : st \in {"Pass", "Error", ""}},
       {Model("log", 2, 1, st) : st \in {"Pass", "Error", "Skipped after Error", "done"}}
           \cup {Malformed("log", 2, 1, "Pass", "no_ref")},
       {Model("message", 3, 2, ""), Malformed("message", 3, 2, "", "no_open")},
       {Model("cpu", 4, 1, ""), Malformed("cpu", 4, 1, "", "no_ref")},
       {Model("chassis", 9, 0, "")},
       {Model("test", 5, 0, st) : st \in {"Warning", "Bogus"}}
           \cup {Malformed("test", 5, 0, "Error", sh) : sh \in {"no_pk", "bad_pk"}} >>

\* the files given to addModels alone: at most MaxModels models of the pool
\* with different pks, in the order of the pool or in the reverse order,
\* closed or truncated
AddFiles ==
    LET picks == {S \in SUBSET DOMAIN ModelPool : Cardinality(S) <= MaxModels}
        sorted(S) == CHOOSE q \in [1..Cardinality(S) -> S] :
                         \A i, j \in 1..Cardinality(S) : i < j => q[i] < q[j]
        reversed(q) == [i \in DOMAIN q |-> q[Len(q) + 1 - i]]
        fill(q) == {ms \in [DOMAIN q -> UNION Range(ModelPool)] :
                        \A i \in DOMAIN q : ms[i] \in ModelPool[q[i]]}
    IN  {[models |-> ms, tail |-> t] :
            ms \in UNION {fill(sorted(S)) \cup fill(reversed(sorted(S))) : S \in picks},
            t \in {"closed", "truncated"}}

\* the key counters given to addModels alone
AddCounters == {4, 9}

NoFile == [models |-> <<>>, tail |-> "closed"]

\* the contents of the result files of a run
OnePass   == [models |-> <<Model("chassis", 9, 0, ""), Model("test", 1, 0, "Pass")>>,
              tail |-> "closed"]
OneError  == [models |-> <<Model("test", 1, 0, "Error")>>, tail |-> "closed"]
LogFirst  == [models |-> <<Model("log", 2, 1, "Pass"), Model("test", 1, 0, "Error")>>,
              tail |-> "closed"]

\* the result files of a run: the chassis in the name and the content
FileChoices ==
    {[ip |-> "101_5", content |-> OnePass], [ip |-> "101_5", content |-> OneError],
     [ip |-> "101_6", content |-> LogFirst]}

\* a file of a well-named, well-formed result
GoodFile == [ip |-> "101_5", content |-> OnePass]

Letter(i) == SubSeq("abcdefgh", i, i)

\* the listing of a result directory holding the chosen files
Listing(choices) ==
    [i \in DOMAIN choices |->
        [name |-> Letter(i) \o "_test_" \o choices[i].ip \o "_result.json",
         data |-> FileText(choices[i].content)]]

\* the listings of the result directories of n OSes, MaxFiles files in all
Listings(n) ==
    {ls \in [1..n -> UNION {{Listing(c) : c \in [1..m -> FileChoices]} : m \in 0..MaxFiles}] :
        LET count[i \in 0..n] == IF i = 0 THEN 0 ELSE count[i - 1] + Len(ls[i])
        IN  count[n] <= MaxFiles}

OSLists == {<<>>, <<"linux_centos">>, <<"linux_centos", "windows_10">>}

\* the most IOMs given to update_all_pdna_firmware
MaxIoms == 2

\* what LoadFW may do over the attempts for an IOM
Runs ==
    {<<"ok">>, <<"fail", "ok">>, <<"fail", "fail", "ok">>,
     <<"fail", "fail", "fail">>, <<"raise">>, <<"fail", "raise">>}

\* the lists of IOMs: IOM number n, with its firmware file or without
IomLists ==
    UNION {{q \in [1..n -> [host_num : 1..MaxIoms, firmware : BOOLEAN, run : Runs]] :
               \A i \in 1..n : q[i].host_num = i} : n \in 0..MaxIoms}

\* a result whose log lacks the field "test"
NoRelation ==
    [models |-> <<Model("test", 1, 0, "Pass"), Malformed("log", 2, 1, "Pass", "no_ref")>>,
     tail |-> "closed"]

\* a result whose test has a status outside the vocabulary and whose log
\* names no status
OddStatus ==
    [models |-> <<Model("test", 1, 0, "Bogus"), Model("log", 2, 1, "done")>>,
     tail |-> "closed"]

\* the files a result directory with faults may hold: a good one, one that is
\* marked as being in the database, one whose name has no chassis, one with
\* the malformed log, and one with the status outside the vocabulary
FaultFiles ==
    << [name |-> "a_test_101_5_result.json", data |-> FileText(OnePass)],
       [name |-> "b_test_101_6_result.json",
        data |-> FileText(OneError) \o "\nFile in database"],
       [name |-> "c_result.json", data |-> FileText(OneError)],
       [name |-> "d_test_101_5_result.json", data |-> FileText(NoRelation)],
       [name |-> "e_test_101_6_result.json", data |-> FileText(OddStatus)] >>

\* the listing of a directory holding the files of FaultFiles at the places S
FaultListing(S) == SelectSeq(FaultFiles, LAMBDA f : \E i \in S : FaultFiles[i] = f)

\* the listings of the result directories of n OSes, MaxFiles files in all
FaultListings(n) ==
    {ls \in [1..n -> {FaultListing(S) : S \in SUBSET DOMAIN FaultFiles}] :
        LET count[i \in 0..n] == IF i = 0 THEN 0 ELSE count[i - 1] + Len(ls[i])
        IN  count[n] <= MaxFiles}

\* the hardware regression results, when there are any
LogicListing == <<[name |-> "logic.json", data |-> FileText(OnePass)]>>

\* config['tags'] and the time of the run
Tags       == "--basic"
StringDate == "2024-07-01 12:00:00"

\* ------------------------------------------------------------------------
\* Initial states
\* ------------------------------------------------------------------------

NoCall == [raised |-> "none", value |-> ""]

StatusIdle ==
    /\ foldOrig = <<>> /\ foldTodo = <<>> /\ foldAcc = ""
    /\ statOne = "" /\ statTwo = "" /\ wsRet = NoCall

AddIdle ==
    /\ file = NoFile /\ prevKey = 0
    /\ am = [addModels_enter("", 0, 0, "") EXCEPT !.pc = "idle"]

FirmwareIdle == fw = [update_all_enter(<<>>) EXCEPT !.pc = "idle"]

TeardownIdle == td = [teardown_enter(FALSE, FALSE, FALSE) EXCEPT !.pc = "idle"]

MergeIdle ==
    /\ os_list = <<>> /\ vm_exists = <<>> /\ vm_results = <<>>
    /\ logic_exists = FALSE /\ logic_results = <<>>
    /\ archive_writable = TRUE
    /\ archive = "" /\ cr = [combine_enter EXCEPT !.pc = "idle"]
    /\ extracted = <<>>
    /\ TeardownIdle

\* a fold is given
StatusInit ==
    /\ foldOrig \in UNION {[1..n -> StatusInputs] : n \in 1..MaxFold}
    /\ foldTodo = Tail(foldOrig)
    /\ foldAcc = Head(foldOrig)
    /\ statOne = "" /\ statTwo = "" /\ wsRet = NoCall
    /\ AddIdle /\ MergeIdle /\ FirmwareIdle

\* a file and a key counter are given
AddInit ==
    /\ file \in AddFiles
    /\ prevKey \in AddCounters
    /\ am = [addModels_enter("", 0, 0, "") EXCEPT !.pc = "idle"]
    /\ StatusIdle /\ MergeIdle /\ FirmwareIdle

\* a run directory is given
MergeInit ==
    /\ os_list \in OSLists
    /\ vm_exists = [idx \in DOMAIN os_list |-> TRUE]
    /\ vm_results \in Listings(Len(os_list))
    /\ logic_exists \in BOOLEAN
    /\ logic_results = IF logic_exists THEN LogicListing ELSE <<>>
    /\ archive_writable = TRUE
    /\ archive = ""
    /\ cr = combine_enter
    /\ extracted = <<>>
    /\ StatusIdle /\ AddIdle /\ TeardownIdle /\ FirmwareIdle

\* a run directory with faults is given: result directories that are
\* missing, files that are marked, misnamed or malformed
FaultInit ==
    /\ os_list \in OSLists
    /\ vm_exists \in [DOMAIN os_list -> BOOLEAN]
    /\ vm_results \in FaultListings(Len(os_list))
    /\ \A idx \in DOMAIN os_list : ~vm_exists[idx] => vm_results[idx] = <<>>
    /\ logic_exists \in BOOLEAN
    /\ logic_results = IF logic_exists THEN LogicListing ELSE <<>>
    /\ archive_writable = TRUE
    /\ archive = ""
    /\ cr = combine_enter
    /\ extracted = <<>>
    /\ StatusIdle /\ AddIdle /\ TeardownIdle /\ FirmwareIdle

\* run_teardown is called at the end of a run
TeardownInit ==
    /\ os_list \in OSLists
    /\ vm_exists = [idx \in DOMAIN os_list |-> TRUE]
    /\ vm_results \in [DOMAIN os_list -> {<<>>, Listing(<<GoodFile>>)}]
    /\ logic_exists \in BOOLEAN
    /\ logic_results = IF logic_exists THEN LogicListing ELSE <<>>
    /\ archive_writable \in BOOLEAN
    /\ archive = ""
    /\ cr = [combine_enter EXCEPT !.pc = "idle"]
    /\ extracted = <<>>
    /\ \E nopower, nodb, noxmlcommit \in BOOLEAN :
           td = teardown_enter(nopower, nodb, noxmlcommit)
    /\ StatusIdle /\ AddIdle /\ FirmwareIdle

\* update_all_pdna_firmware is called with a list of IOMs
FirmwareInit ==
    /\ fw \in {update_all_enter(ioms) : ioms \in IomLists}
    /\ StatusIdle /\ AddIdle /\ MergeIdle

\* ------------------------------------------------------------------------
\* Actions
\* ------------------------------------------------------------------------

\* the status folded so far is combined with the next one
FoldStep ==
    /\ foldTodo # <<>>
    /\ wsRet.raised = "none"
    /\ statOne' = foldAcc
    /\ statTwo' = Head(foldTodo)
    /\ wsRet' = worseStatus(foldAcc, Head(foldTodo))
    /\ foldAcc' = IF wsRet'.raised = "none" THEN wsRet'.value ELSE foldAcc
    /\ foldTodo' = IF wsRet'.raised = "none" THEN Tail(foldTodo) ELSE foldTodo
    /\ UNCHANGED <<foldOrig, addVars, mergeVars, td, fw>>

\* addModels is called with the file (osKey 3, osName linux_centos)
AddModelsCall ==
    /\ am.pc = "idle"
    /\ am' = addModels_enter(FileText(file), prevKey, 3, "linux_centos")
    /\ UNCHANGED <<file, prevKey, statusVars, mergeVars, td, fw>>

\* one iteration of its loop
AddModelsIteration ==
    /\ am.pc = "loop"
    /\ am' = addModels_iteration(am)
    /\ UNCHANGED <<file, prevKey, statusVars, mergeVars, td, fw>>

\* the loop is left: statuses are written back and the call returns
AddModelsReturn ==
    /\ am.pc = "post"
    /\ am' = addModels_return(am)
    /\ UNCHANGED <<file, prevKey, statusVars, mergeVars, td, fw>>

\* a call without the return of lines 44-46: with nothing to merge it goes
\* on as with something to merge
CombineSkip_falls_through ==
    /\ cr.pc = "start"
    /\ Len(os_list) = 0 /\ ~logic_exists
    /\ cr' = combine_prepare(cr, os_list, vm_exists, vm_results, logic_exists,
                             logic_results, StringDate, <<>>)
    /\ UNCHANGED <<os_list, vm_exists, vm_results, logic_exists, logic_results,
                   archive_writable, archive, extracted, statusVars, addVars, td, fw>>

\* lines 44-46: nothing to merge
CombineSkip ==
    /\ cr.pc = "start"
    /\ Len(os_list) = 0 /\ ~logic_exists
    /\ cr' = [cr EXCEPT !.pc = "returned"]
    /\ UNCHANGED <<os_list, vm_exists, vm_results, logic_exists, logic_results,
                   archive_writable, archive, extracted, statusVars, addVars, td, fw>>

\* lines 48-138: the files are found and the keys set aside
CombinePrepare ==
    /\ cr.pc = "start"
    /\ ~(Len(os_list) = 0 /\ ~logic_exists)
    /\ \E order \in Orders(ChassisUnion(os_list, vm_exists, vm_results)) :
           cr' = combine_prepare(cr, os_list, vm_exists, vm_results, logic_exists,
                                 logic_results, StringDate, order)
    /\ UNCHANGED <<os_list, vm_exists, vm_results, logic_exists, logic_results,
                   archive_writable, archive, extracted, statusVars, addVars, td, fw>>

\* a result directory in which no trailer is written
Marked_nothing(listing, name) == listing

\* the trailer is appended to file k of the listing
Marked(listing, name) ==
    [i \in DOMAIN listing |->
        IF listing[i].name = name
        THEN [listing[i] EXCEPT !.data = @ \o "\nFile in database"]
        ELSE listing[i]]

\* the data of the file of that name
DataOf(listing, name) ==
    listing[CHOOSE i \in DOMAIN listing : listing[i].name = name].data

\* the file of that name is extracted with the locals `next` as the result
CombineFileTo(osName, filename, next) ==
    /\ cr' = next
    /\ IF next.pc = "raised"
       THEN UNCHANGED <<vm_results, extracted>>
       ELSE /\ vm_results' = [vm_results EXCEPT ![cr.idx] = Marked(@, filename)]
            /\ extracted' = Append(extracted,
                   [os |-> osName, name |-> filename, ip |-> getIP(filename),
                    status |-> next.ret.osStatus])

\* lines 142-184: one result file is extracted, folded in and marked
CombineFile ==
    /\ cr.pc = "files"
    /\ CombineFileTo(os_list[cr.idx], cr.file_per_os[cr.idx][cr.k],
           combine_file(cr, os_list,
               DataOf(vm_results[cr.idx], cr.file_per_os[cr.idx][cr.k])))
    /\ UNCHANGED <<os_list, vm_exists, logic_exists, logic_results,
                   archive_writable, archive, statusVars, addVars, td, fw>>

\* lines 191-212: the chassis and the date are added and the archive written
CombineFinish ==
    /\ cr.pc = "finish"
    /\ IF ~cr.all_chassis_bound
       THEN cr' = CrRaise(cr, "UnboundLocalError") /\ UNCHANGED archive
       ELSE IF ~archive_writable
       THEN cr' = CrRaise([cr EXCEPT !.json_data_combined = combine_text(cr, Tags)],
                          "OSError") /\ UNCHANGED archive
       ELSE /\ archive' = combine_text(cr, Tags)
            /\ cr' = [cr EXCEPT !.pc = "returned",
                                !.json_data_combined = combine_text(cr, Tags)]
    /\ UNCHANGED <<os_list, vm_exists, vm_results, logic_exists, logic_results,
                   archive_writable, extracted, statusVars, addVars, td, fw>>

\* combine_results is called again on the run directory as the call before
\* left it; the archive of this call is a new file
CombineAgain ==
    /\ cr.pc \in {"returned", "raised"}
    /\ cr' = combine_enter
    /\ archive' = ""
    /\ UNCHANGED <<os_list, vm_exists, vm_results, logic_exists, logic_results,
                   archive_writable, extracted, statusVars, addVars, td, fw>>

\* teardown.py lines 51-54: the hardware is powered off
TeardownPower ==
    /\ td.pc = "power"
    /\ td' = teardown_power(td)
    /\ UNCHANGED <<statusVars, addVars, mergeVars, fw>>

\* lines 58-60: combine_results is called, unless config['nodb']
TeardownMerge ==
    /\ td.pc = "merge"
    /\ IF td.nodb
       THEN td' = teardown_merged(td) /\ UNCHANGED cr
       ELSE td' = [td EXCEPT !.pc = "merging"] /\ cr' = combine_enter
    /\ UNCHANGED <<os_list, vm_exists, vm_results, logic_exists, logic_results,
                   archive_writable, archive, extracted, statusVars, addVars, fw>>

\* line 60: combine_results has returned
TeardownMerged ==
    /\ td.pc = "merging" /\ cr.pc = "returned"
    /\ td' = teardown_merged(td)
    /\ UNCHANGED <<statusVars, addVars, mergeVars, fw>>

\* line 60: combine_results has raised, and so does run_teardown
TeardownMergeRaised ==
    /\ td.pc = "merging" /\ cr.pc = "raised"
    /\ td' = teardown_merge_raised(td, cr.raised)
    /\ UNCHANGED <<statusVars, addVars, mergeVars, fw>>

\* lines 64-70: the XMLs are committed, unless config['noxmlcommit']
TeardownCommit ==
    /\ td.pc = "commit"
    /\ td' = teardown_commit(td)
    /\ UNCHANGED <<statusVars, addVars, mergeVars, fw>>

\* lines 74-76: the temp directory is emptied
TeardownEmptyTemp ==
    /\ td.pc = "empty"
    /\ td' = teardown_empty_temp(td)
    /\ UNCHANGED <<statusVars, addVars, mergeVars, fw>>

\* lines 80-86: the closing prints, and the logs are closed
TeardownClose ==
    /\ td.pc = "close"
    /\ td' = teardown_close(td)
    /\ UNCHANGED <<statusVars, addVars, mergeVars, fw>>

\* setup_h.py lines 173-182: the firmware files are looked up
FirmwareCollect ==
    /\ fw.pc = "collect"
    /\ fw' = update_all_collect(fw)
    /\ UNCHANGED <<statusVars, addVars, mergeVars, td>>

\* lines 184-187: a child of the pool updates its IOM and returns
FirmwareChild ==
    /\ fw.pc = "pool"
    /\ \E i \in DOMAIN fw.param_list :
           /\ fw.results[i] = Pending
           /\ fw' = update_all_child(fw, i)
    /\ UNCHANGED <<statusVars, addVars, mergeVars, td>>

\* lines 189-198: all children have returned, the results are reported
FirmwareReport ==
    /\ fw.pc = "pool"
    /\ \A i \in DOMAIN fw.results : fw.results[i] # Pending
    /\ fw' = update_all_report(fw)
    /\ UNCHANGED <<statusVars, addVars, mergeVars, td>>

StatusNext == FoldStep
FirmwareNext == FirmwareCollect \/ FirmwareChild \/ FirmwareReport
AddNext    == AddModelsCall \/ AddModelsIteration \/ AddModelsReturn
MergeNext  == CombineSkip \/ CombinePrepare \/ CombineFile \/ CombineFinish
FaultNext  == MergeNext \/ CombineAgain
TeardownNext ==
    \/ TeardownPower \/ TeardownMerge \/ TeardownMerged \/ TeardownMergeRaised
    \/ TeardownCommit \/ TeardownEmptyTemp \/ TeardownClose
    \/ MergeNext

\* folds of statuses
SpecStatus == StatusInit /\ [][StatusNext]_vars
\* calls of addModels
SpecAdd    == AddInit /\ [][AddNext]_vars
\* runs of combine_results
SpecMerge  == MergeInit /\ [][MergeNext]_vars
\* calls of combine_results, one after another, on a run directory with faults
SpecFaults == FaultInit /\ [][FaultNext]_vars
\* calls of run_teardown
SpecTeardown == TeardownInit /\ [][TeardownNext]_vars

\* calls of update_all_pdna_firmware
SpecFirmware == FirmwareInit /\ [][FirmwareNext]_vars

Init == StatusInit \/ AddInit \/ MergeInit \/ FaultInit \/ TeardownInit
        \/ FirmwareInit
Next == StatusNext \/ AddNext \/ FaultNext \/ TeardownNext \/ FirmwareNext
Spec == Init /\ [][Next]_vars


\* ------------------------------------------------------------------------
\* Properties of worseStatus (SpecStatus)
\* ------------------------------------------------------------------------

\* worseStatus has been called: statOne and statTwo are its arguments,
\* wsRet its result
Called == statOne # "" \/ statTwo # ""

\* the permutations of a sequence
Perms(q) ==
    {[i \in DOMAIN q |-> q[f[i]]] :
        f \in {g \in [DOMAIN q -> DOMAIN q] :
                  \A i, j \in DOMAIN q : i # j => g[i] # g[j]}}

RECURSIVE FoldFrom(_, _)
\* the statuses of q folded into acc from left to right
FoldFrom(acc, q) ==
    IF q = <<>> \/ acc.raised # "none" THEN acc
    ELSE FoldFrom(worseStatus(acc.value, Head(q)), Tail(q))

\* a sequence of statuses folded from left to right
FoldLeft(q) == FoldFrom(Ret(Head(q)), Tail(q))

\* C1: for recognized a and b, worseStatus(a, b) returns a or b, the one
\* that is later in Skipped < Off < WrongOS < Pass < Warning < Error (so
\* the token itself when both are the same token)
C1_WorseOfTwo ==
    (Called /\ statOne \in Recognized /\ statTwo \in Recognized) =>
        /\ wsRet.raised = "none"
        /\ wsRet.value \in {statOne, statTwo}
        /\ CategoryRank(wsRet.value) >= CategoryRank(statOne)
        /\ CategoryRank(wsRet.value) >= CategoryRank(statTwo)

\* an Error and a Pass were combined, the earlier argument being the worse
C1_Witness ==
    statOne = "Error" /\ statTwo = "Pass" /\ wsRet = Ret("Error")

\* C2: the left fold of a sequence of recognized statuses is the same for
\* every permutation of the sequence; worseStatus is commutative and
\* associative on recognized statuses
C2_FoldOrderFree ==
    (foldTodo = <<>> /\ Range(foldOrig) \subseteq Recognized) =>
        /\ \A q \in Perms(foldOrig) : FoldLeft(q) = Ret(foldAcc)
        /\ Called => worseStatus(statTwo, statOne) = wsRet
        /\ Len(foldOrig) >= 3 =>
             LET a == foldOrig[1]
                 b == foldOrig[2]
                 c == foldOrig[3]
             IN  worseStatus(a, worseStatus(b, c).value)
                     = worseStatus(worseStatus(a, b).value, c)

\* three different statuses, not in their order, were folded
C2_Witness ==
    foldTodo = <<>> /\ foldOrig = <<"Pass", "Error", "Warning">> /\ foldAcc = "Error"

\* C3: with exactly one operand unrecognized worseStatus returns the
\* recognized one, in either position; with both unrecognized it raises and
\* returns no status
C3_Unrecognized ==
    Called =>
        /\ (statOne \notin Recognized /\ statTwo \in Recognized)
               => wsRet = Ret(statTwo)
        /\ (statOne \in Recognized /\ statTwo \notin Recognized)
               => wsRet = Ret(statOne)
        /\ (statOne \notin Recognized /\ statTwo \notin Recognized)
               => wsRet.raised = "LookupError" /\ wsRet.value = ""

\* an unrecognized status came first, then a recognized one, then another
\* unrecognized one: both calls returned the recognized one
C3_Witness ==
    /\ foldOrig = <<"Aborted", "Pass", "pass">> /\ foldTodo = <<>>
    /\ statOne = "Pass" /\ statTwo = "pass" /\ wsRet = Ret("Pass")


\* ------------------------------------------------------------------------
\* Properties of addModels (SpecAdd)
\* ------------------------------------------------------------------------

\* the models of a file that addModels emits: all but the chassis
NotChassis(m) == m.kind # "chassis"
Emitted(ms) == SelectSeq(ms, NotChassis)

\* every model of a file is as the test runner writes it
WellFormed(ms) == \A i \in DOMAIN ms : ms[i].shape = "ok"

RECURSIVE Extractable(_)
\* the models of a file before its first model without a pk field or
\* without its opening brace
Extractable(ms) ==
    IF ms = <<>> \/ Head(ms).shape \in {"no_pk", "no_open"} THEN <<>>
    ELSE <<Head(ms)>> \o Extractable(Tail(ms))

\* the highest pk among models, 0 for none
MaxPk(ms) ==
    IF ms = <<>> THEN 0
    ELSE CHOOSE n \in {ms[i].pk : i \in DOMAIN ms} :
             \A i \in DOMAIN ms : ms[i].pk <= n

\* the relation field that addModels re-keys in an emitted record of a kind
Relation(kind, rec) ==
    CASE kind = "log"             -> rec.test
      [] kind = "message"         -> rec.log
      [] kind \in {"cpu", "dut"}  -> rec.test
      [] OTHER                    -> -1

\* C9: for every record addModels emits, the emitted pk minus the key
\* counter given to the call is the pk the record had in the file, and the
\* relation field of a log, message, cpu or dut is shifted by the same offset
C9_RekeyOffset ==
    am.pc = "done" =>
        LET recs   == ReadRecords(am.models)
            inputs == Emitted(Extractable(file.models))
        IN  /\ Len(recs) = Len(inputs)
            /\ \A i \in DOMAIN recs :
                 /\ recs[i].pk - prevKey = inputs[i].pk
                 /\ inputs[i].kind \in {"log", "message", "cpu", "dut"}
                      => Relation(inputs[i].kind, recs[i]) - prevKey = inputs[i].ref

\* a log that belongs to test 1 was emitted after the counter 4: it has
\* the pk 6 and belongs to test 5
C9_Witness ==
    /\ am.pc = "done" /\ prevKey = 4
    /\ \E i \in DOMAIN file.models :
           file.models[i].kind = "log" /\ file.models[i].pk = 2
    /\ \E rec \in Range(ReadRecords(am.models)) : rec.pk = 6 /\ rec.test = 5

\* C10: for a file of well-formed models whose last model is cut off
\* mid-block addModels does not raise; it returns the models before it
\* re-keyed, and the key counter and the worst status that these models give
\* (what the file without the cut model gives)
C10_TruncatedTail ==
    (file.tail = "truncated" /\ WellFormed(file.models)) =>
        /\ am.pc # "raised"
        /\ am.pc = "done" =>
             LET recs   == ReadRecords(am.models)
                 inputs == Emitted(file.models)
                 whole  == addModels(FileText([file EXCEPT !.tail = "closed"]),
                                     prevKey, 3, "linux_centos")
             IN  /\ Len(recs) = Len(inputs)
                 /\ \A i \in DOMAIN recs : recs[i].pk = inputs[i].pk + prevKey
                 /\ am.prevHighestKey = prevKey + MaxPk(inputs)
                 /\ am.osStatus = whole.osStatus
                 /\ am.chassisName = whole.chassisName
                 /\ Replace(am.models, "}},\n]", "}}]")
                        = Replace(whole.models, "}},\n]", "}}]")

\* a test with an Error and its log came before the cut model and were
\* returned, with the counter raised by 2 and the status Error
C10_Witness ==
    /\ file.tail = "truncated" /\ WellFormed(file.models) /\ am.pc = "done"
    /\ Len(Emitted(file.models)) = 2
    /\ Len(ReadRecords(am.models)) = 2
    /\ am.prevHighestKey = prevKey + 2 /\ am.osStatus = "Error"


\* a model whose pk is missing or no integer
PkFaulty(m) == m.shape \in {"no_pk", "bad_pk"}

RECURSIVE BeforeFault(_)
\* the models of a file before the first one whose pk is missing or no integer
BeforeFault(ms) ==
    IF ms = <<>> \/ PkFaulty(Head(ms)) THEN <<>>
    ELSE <<Head(ms)>> \o BeforeFault(Tail(ms))

\* C18: for a file of well-formed models up to a first model whose pk is
\* missing or no integer, addModels does not raise and returns the models
\* before that one and none after it
C18_StopsAtBadPk ==
    (/\ \E i \in DOMAIN file.models : PkFaulty(file.models[i])
     /\ WellFormed(BeforeFault(file.models))) =>
        /\ am.pc # "raised"
        /\ am.pc = "done" =>
             LET recs   == ReadRecords(am.models)
                 inputs == Emitted(BeforeFault(file.models))
             IN  /\ Len(recs) = Len(inputs)
                 /\ \A i \in DOMAIN recs : recs[i].pk = inputs[i].pk + prevKey
                 /\ am.prevHighestKey = prevKey + MaxPk(inputs)

\* the model that the next iteration of addModels looks at
NextBlock ==
    Slice(am.fileData, Find(am.fileData, "{"), Find(am.fileData, "}}") + 4)

\* the places in the vocabulary of the statuses that occur in a text
TokensIn(text) ==
    {i \in DOMAIN TEST_STATUS_DICT_values :
        Contains(text, TEST_STATUS_DICT_values[i])}

\* the status tracked for a test, Skipped for a test that is not tracked
Tracked(d, key) == IF InDict(d, key) THEN DictGet(d, key) ELSE skipped_status[1]

\* the last of a set of places
Last(I) == CHOOSE i \in I : \A j \in I : j <= i

\* C19: when addModels handles a log, the status tracked for its test
\* (Skipped if it was not tracked) becomes worseStatus of it and the one
\* status of the log, the last of the vocabulary that occurs in the log; a
\* log without a status leaves the tracked status as it was
C19_LogFoldsOneToken ==
    [][(/\ am.pc = "loop" /\ am'.pc = "loop"
        /\ ReadBlock(NextBlock).model = "log")
       => LET key    == ReadBlock(NextBlock).test + prevKey
              before == Tracked(am.testStatus, key)
              tokens == TokensIn(NextBlock)
          IN  /\ InDict(am'.testStatus, key)
              /\ DictGet(am'.testStatus, key) =
                   IF tokens = {} THEN before
                   ELSE worseStatus(before,
                            TEST_STATUS_DICT_values[Last(tokens)]).value]_vars

\* a log whose text holds Skipped and Error was handled for a test tracked
\* with Pass: Skipped was folded, the status stayed Pass
C19_Witness ==
    /\ am.pc \in {"loop", "post"}
    /\ \E i \in DOMAIN file.models :
           file.models[i].kind = "log" /\ file.models[i].status = "Skipped after Error"
    /\ Contains(am.models, "Skipped after Error")
    /\ am.testStatus = <<[key |-> prevKey + 1, value |-> "Pass"]>>

\* the statuses tracked, in the order of the dict
TrackedStatuses(d) == [i \in DOMAIN d |-> d[i].value]

\* C20: the status addModels returns is the worseStatus fold of Skipped
\* with the statuses tracked for the tests of the file: no better than any
\* recognized one of them, and one of them or Skipped
C20_WorstIsFold ==
    am.pc = "done" =>
        /\ Ret(am.osStatus)
               = FoldFrom(Ret(skipped_status[1]), TrackedStatuses(am.testStatus))
        /\ \A i \in DOMAIN am.testStatus :
               am.testStatus[i].value \in Recognized =>
                   Index(possible_test_statuses, am.osStatus)
                       >= Index(possible_test_statuses, am.testStatus[i].value)
        /\ am.osStatus \in Range(TrackedStatuses(am.testStatus)) \cup {skipped_status[1]}

\* a test tracked with Warning and a log that made another test Error: the
\* status returned is Error
C20_Witness ==
    /\ am.pc = "done" /\ Len(am.testStatus) = 2
    /\ am.testStatus[1].value = "Warning" /\ am.testStatus[2].value = "Error"
    /\ am.osStatus = "Error"

\* ------------------------------------------------------------------------
\* Properties of combine_results (SpecMerge)
\* ------------------------------------------------------------------------

\* the run has written the archive
Written == cr.pc = "returned" /\ archive # ""

\* the records of the archive
ArchiveRecords == ReadRecords(archive)

\* the records of the archive of a model
RecordsOf(model) ==
    {i \in DOMAIN ArchiveRecords : ArchiveRecords[i].model = model}

\* the place of a status in the order, -1 for what is no status
Rank(s) == IF s \in Recognized THEN CategoryRank(s) ELSE -1

\* the (OS, chassis) pairs and the chassis of the files extracted
ExtractedPairs == {<<extracted[i].os, extracted[i].ip>> : i \in DOMAIN extracted}
ExtractedChassis == {extracted[i].ip : i \in DOMAIN extracted}

\* the ipNum of the chassis record of a chassis
FullIP(ip) == "192.168." \o Replace(ip, "_", ".")

\* the statuses of a sequence of records, those at the places in I
RECURSIVE StatusesAt(_, _)
StatusesAt(recs, I) ==
    IF I = {} THEN <<>>
    ELSE LET i == CHOOSE x \in I : \A y \in I : x <= y
         IN  <<recs[i].status>> \o StatusesAt(recs, I \ {i})

\* the statuses addModels returned for the files of a pair, in their order
PairStatuses(pair) ==
    LET mine(e) == e.os = pair[1] /\ e.ip = pair[2]
        sel     == SelectSeq(extracted, mine)
    IN  [i \in DOMAIN sel |-> sel[i].status]

\* C4: after a run, with or without hardware regression files, no two
\* records of the archive have the same pk
C4_KeysUnique ==
    Written =>
        \A i, j \in DOMAIN ArchiveRecords :
            i # j => ArchiveRecords[i].pk # ArchiveRecords[j].pk

\* C5: for every test record, the os record it belongs to and the chassis
\* record that one belongs to, the chassis status is no better than the os
\* status and the os status no better than the test status
C5_ParentNotBetter ==
    Written =>
        \A t \in RecordsOf("test"), o \in RecordsOf("os"), c \in RecordsOf("chassis") :
            (/\ ArchiveRecords[t].os = ArchiveRecords[o].pk
             /\ ArchiveRecords[o].chassis = ArchiveRecords[c].pk)
            => /\ Rank(ArchiveRecords[c].status) >= Rank(ArchiveRecords[o].status)
               /\ Rank(ArchiveRecords[o].status) >= Rank(ArchiveRecords[t].status)

\* C6: the archive of a run without hardware regression files holds exactly
\* one chassis record for each chassis of the files extracted, and its
\* status is the fold of the statuses of the os records that belong to it
C6_OneChassisPerToken ==
    (Written /\ ~logic_exists) =>
        \A ip \in ExtractedChassis :
            LET mine == {c \in RecordsOf("chassis") :
                            ArchiveRecords[c].ipNum = FullIP(ip)}
            IN  /\ Cardinality(mine) = 1
                /\ \A c \in mine :
                     LET oss == {o \in RecordsOf("os") :
                                    ArchiveRecords[o].chassis = ArchiveRecords[c].pk}
                     IN  /\ oss # {}
                         /\ FoldLeft(StatusesAt(ArchiveRecords, oss))
                                = Ret(ArchiveRecords[c].status)

\* C7: the archive of a run without hardware regression files holds exactly
\* one os record for each (OS, chassis) pair a file was extracted for, and
\* its status is the fold of the statuses returned for the files of the pair
C7_OneOsPerPair ==
    (Written /\ ~logic_exists) =>
        \A pair \in ExtractedPairs :
            LET mine == {o \in RecordsOf("os") :
                            /\ ArchiveRecords[o].osName = pair[1]
                            /\ ArchiveRecords[o].pk = cr.os_key[pair[1] \o pair[2]]}
            IN  /\ Cardinality(mine) = 1
                /\ \A o \in mine :
                     FoldLeft(PairStatuses(pair)) = Ret(ArchiveRecords[o].status)

\* C8: in the archive of a run without hardware regression files every
\* test belongs to an os record of the archive, every os record to a chassis
\* record of it, every log to a test of it, every message to a log of it and
\* every cpu or dut to a test of it
C8_RelationsResolve ==
    (Written /\ ~logic_exists) =>
        /\ \A t \in RecordsOf("test") : \E o \in RecordsOf("os") :
               ArchiveRecords[t].os = ArchiveRecords[o].pk
        /\ \A o \in RecordsOf("os") : \E c \in RecordsOf("chassis") :
               ArchiveRecords[o].chassis = ArchiveRecords[c].pk
        /\ \A l \in RecordsOf("log") : \E t \in RecordsOf("test") :
               ArchiveRecords[l].test = ArchiveRecords[t].pk
        /\ \A m \in RecordsOf("message") : \E l \in RecordsOf("log") :
               ArchiveRecords[m].log = ArchiveRecords[l].pk
        /\ \A d \in RecordsOf("cpu") \cup RecordsOf("dut") :
               \E t \in RecordsOf("test") :
                   ArchiveRecords[d].test = ArchiveRecords[t].pk

\* ------------------------------------------------------------------------
\* Properties of combine_results on a run directory with faults (SpecFaults)
\* and with nothing to merge (SpecMerge)
\* ------------------------------------------------------------------------

\* the result files of the run
ResultFiles == UNION {Range(vm_results[idx]) : idx \in DOMAIN os_list}

\* the file holds the trailer
IsMarked(f) == Contains(f.data, "File in database")

\* the name of the file gives no chassis
Misnamed(f) == getIP(f.name) = NoIP

\* the file has a log without the field "test"
LacksRelation(f) ==
    Contains(f.data, "rsinterface.log") /\ ~Contains(f.data, "\"test\": ")

\* the files that a call has to extract are well named and well formed
SoundFiles ==
    \A f \in ResultFiles : ~IsMarked(f) => ~Misnamed(f) /\ ~LacksRelation(f)

\* C11: a result file whose log lacks the relation field does not make
\* combine_results raise (the other files being well named): the call
\* returns and has written the archive
C11_MalformedFileNoAbort ==
    (/\ \E f \in ResultFiles : ~IsMarked(f) /\ LacksRelation(f)
     /\ \A f \in ResultFiles : ~IsMarked(f) => ~Misnamed(f)) =>
        /\ cr.pc # "raised"
        /\ cr.pc = "returned" => archive # ""

\* C12: when the archive is written, it has a chassis record for the
\* chassis of every result file that holds the trailer
C12_MarkedTokenInUnion ==
    Written =>
        \A f \in ResultFiles :
            (IsMarked(f) /\ ~Misnamed(f)) =>
                \E i \in RecordsOf("chassis") :
                    ArchiveRecords[i].ipNum = FullIP(getIP(f.name))

\* C13: over the calls of combine_results on a run directory, every file
\* extracted holds the trailer from then on, the files a call goes through
\* do not hold it, and no file is extracted twice
C13_ExtractedOnce ==
    /\ \A i \in DOMAIN extracted :
           \E idx \in DOMAIN os_list :
               /\ os_list[idx] = extracted[i].os
               /\ \E f \in Range(vm_results[idx]) :
                      f.name = extracted[i].name /\ IsMarked(f)
    /\ cr.pc = "files" =>
           \A k \in cr.k..Len(cr.file_per_os[cr.idx]) :
               \A f \in Range(vm_results[cr.idx]) :
                   f.name = cr.file_per_os[cr.idx][k] => ~IsMarked(f)
    /\ \A i, j \in DOMAIN extracted :
           (extracted[i].os = extracted[j].os /\ extracted[i].name = extracted[j].name)
               => i = j

\* a call that found nothing to extract, after a call that extracted a file
\* in each of two result directories
C13_Witness ==
    /\ cr.pc = "returned"
    /\ Len(cr.file_per_os) = 2 /\ cr.file_per_os[1] = <<>> /\ cr.file_per_os[2] = <<>>
    /\ Len(extracted) = 2
    /\ \A f \in ResultFiles : IsMarked(f)

\* C14: a result file whose name gives no chassis does not make
\* combine_results raise (the files being well formed): the call returns
\* and has written the archive
C14_MisnamedFileNoAbort ==
    (/\ \E f \in ResultFiles : ~IsMarked(f) /\ Misnamed(f)
     /\ \A f \in ResultFiles : ~IsMarked(f) => ~LacksRelation(f)) =>
        /\ cr.pc # "raised"
        /\ cr.pc = "returned" => archive # ""

\* C15: with no OS and no hardware regression directory the call returns
\* without an error, no archive is written and no file is extracted or
\* marked
C15_NothingToMerge ==
    (Len(os_list) = 0 /\ ~logic_exists) =>
        /\ cr.pc \in {"start", "returned"} /\ cr.raised = "none"
        /\ archive = ""
        /\ extracted = <<>> /\ \A f \in ResultFiles : ~IsMarked(f)
        /\ cr.json_data_combined = ""

\* the call with nothing to merge has returned
C15_Witness ==
    /\ Len(os_list) = 0 /\ ~logic_exists
    /\ cr.pc = "returned" /\ archive = ""

\* C17: when the result directory of an OS is missing (the files of the
\* others being well named and well formed), the call does not raise, the
\* OS has no files, and when the call has returned the archive is written
\* and every file the call found for the other OSes is extracted and marked
C17_MissingDirectory ==
    ((\E idx \in DOMAIN os_list : ~vm_exists[idx]) /\ SoundFiles) =>
        /\ cr.pc # "raised"
        /\ cr.pc \in {"files", "finish", "returned"} =>
               \A idx \in DOMAIN os_list : ~vm_exists[idx] => cr.file_per_os[idx] = <<>>
        /\ cr.pc = "returned" =>
               /\ archive # ""
               /\ \A f \in ResultFiles : IsMarked(f)
               /\ \A idx \in DOMAIN os_list :
                      \A k \in DOMAIN cr.file_per_os[idx] :
                          \E i \in DOMAIN extracted :
                              /\ extracted[i].os = os_list[idx]
                              /\ extracted[i].name = cr.file_per_os[idx][k]

\* the directory of the first OS is missing, and the file of the second is
\* in the archive
C17_Witness ==
    /\ Len(os_list) = 2 /\ ~vm_exists[1] /\ vm_exists[2]
    /\ Written
    /\ Len(extracted) = 1 /\ extracted[1].os = "windows_10"
    /\ \E i \in RecordsOf("os") : ArchiveRecords[i].osName = "windows_10"
    /\ RecordsOf("test") # {}

\* ------------------------------------------------------------------------
\* Properties of run_teardown (SpecTeardown)
\* ------------------------------------------------------------------------

\* C16: when combine_results has raised, run_teardown still ends with the
\* XMLs committed (unless config['noxmlcommit']), the temp directory
\* emptied and the logs closed
C16_CleanupAfterFailedMerge ==
    (cr.pc = "raised" /\ td.pc \in {"done", "raised"}) =>
        /\ td.committed = ~td.noxmlcommit
        /\ td.temp_emptied
        /\ td.logs_closed

\* ------------------------------------------------------------------------
\* Properties of the key counter over the files of a merge (SpecMerge)
\* ------------------------------------------------------------------------

\* the greatest of a set of naturals, 0 for the empty set
MaxOf(S) == IF S = {} THEN 0 ELSE CHOOSE x \in S : \A y \in S : y <= x

\* the pks of the models of a result file that are no chassis
LocalPks(data) ==
    LET recs == ReadRecords(data) IN
    {recs[i].pk : i \in {j \in DOMAIN recs : recs[j].model # "chassis"}}

\* the keys set aside before the files are gone through
Preallocated(c) ==
    {c.date_key} \cup {c.chassis_key[x] : x \in DOMAIN c.chassis_key}
                 \cup {c.os_key[x] : x \in DOMAIN c.os_key}

\* the pks of the records addModels returned for the last file
ReturnedPks(c) ==
    LET recs == ReadRecords(c.ret.models) IN {recs[i].pk : i \in DOMAIN recs}

\* C21: when a file of a merge is extracted, the key counter becomes the
\* counter before plus the highest pk of the models of the file that are no
\* chassis, it does not decrease, and every key of the file is above the
\* counter before (so above the keys of the files before it) and above the
\* keys of the date, the chassis and the OSes
C21_CounterGrows ==
    [][(cr.pc = "files" /\ cr'.pc # "raised") =>
          LET data     == DataOf(vm_results[cr.idx], cr.file_per_os[cr.idx][cr.k])
              local    == LocalPks(data)
              returned == ReturnedPks(cr')
          IN  /\ cr'.highest_key = cr.highest_key + MaxOf(local)
              /\ cr'.highest_key >= cr.highest_key
              /\ returned = {pk + cr.highest_key : pk \in local}
              /\ \A key \in returned :
                     /\ key > cr.highest_key
                     /\ key <= cr'.highest_key
                     /\ \A pre \in Preallocated(cr) : key > pre
              /\ \A pre \in Preallocated(cr) : pre < cr.highest_key]_vars

\* three files are extracted, the last of them with keys above 7
C21_Witness ==
    /\ cr.pc = "finish" /\ Len(extracted) = 3
    /\ cr.highest_key >= 8
    /\ \A key \in ReturnedPks(cr) : key > 6

\* C22: what addModels returns for a file of a merge holds no chassis
\* record, and the chassis records of the archive are those that
\* combine_results makes, one for each element of all_chassis with the key
\* set aside for it
C22_NoChassisCopied ==
    /\ cr.pc \in {"files", "finish", "returned"} =>
           ~Contains(cr.ret.models, chassisObject)
    /\ Written =>
           /\ Cardinality(RecordsOf("chassis")) = Len(cr.all_chassis)
           /\ \A i \in RecordsOf("chassis") :
                  \E x \in DOMAIN cr.chassis_key :
                      /\ ArchiveRecords[i].pk = cr.chassis_key[x]
                      /\ ArchiveRecords[i].ipNum = FullIP(x)

\* the blocks of the archive that are date records
DateBlocks ==
    {i \in DOMAIN ArchiveRecords : ArchiveRecords[i].model = "date"}

\* the text of the date field in the archive
ArchiveDate == Between(archive, "\"date\": \"", "\"")

\* C23: a merge that is not skipped does not raise, and when it has
\* returned the archive is written and holds one date record, with the key
\* set aside for the date, the time of the run and the tags as its status
C23_OneDateRecord ==
    /\ cr.pc # "raised"
    /\ (cr.pc = "returned" /\ ~(Len(os_list) = 0 /\ ~logic_exists)) =>
           /\ archive # ""
           /\ Cardinality(DateBlocks) = 1
           /\ \A i \in DateBlocks :
                  /\ ArchiveRecords[i].pk = cr.date_key
                  /\ ArchiveRecords[i].status = Tags
           /\ ArchiveDate = StringDate

\* ------------------------------------------------------------------------
\* Properties of the statuses folded in a merge (SpecFaults)
\* ------------------------------------------------------------------------

\* C24: in a merge no call of worseStatus raises for two statuses outside
\* the vocabulary: the status addModels returns and the statuses of the
\* OSes, the chassis and the run are statuses of the vocabulary
C24_FoldsRecognized ==
    /\ cr.raised # "LookupError"
    /\ cr.pc \in {"files", "finish", "returned"} =>
           /\ cr.test_result_status \in Recognized
           /\ \A x \in DOMAIN cr.os_status : cr.os_status[x] \in Recognized
           /\ \A x \in DOMAIN cr.chassis_status : cr.chassis_status[x] \in Recognized
           /\ cr.ret.models # "" => cr.ret.osStatus \in Recognized

\* the file whose test has the status Bogus is extracted: the status is in
\* the archive and the status returned for the file is Skipped
C24_Witness ==
    /\ Written
    /\ Contains(archive, "Bogus")
    /\ \E i \in DOMAIN extracted :
           extracted[i].name = "e_test_101_6_result.json"
           /\ extracted[i].status = "Skipped"

\* ------------------------------------------------------------------------
\* Properties of update_all_pdna_firmware (SpecFirmware)
\* ------------------------------------------------------------------------

\* an attempt of the update of the IOM succeeded
SomeAttemptOk(iom) ==
    \E i \in 1..Attempts :
        /\ i <= Len(iom.run) /\ iom.run[i] = "ok"
        /\ \A j \in 1..(i - 1) : iom.run[j] = "fail"

\* C25: when update_all_pdna_firmware has sorted the results, an IOM is in
\* success only if an attempt of its update succeeded, and every other IOM
\* that has a firmware file (all attempts failed, or the update raised) is
\* in fail
C25_SuccessOnlyIfUpdated ==
    fw.pc = "done" =>
        \A i \in DOMAIN fw.param_list :
            LET iom == fw.param_list[i] IN
            /\ InList(fw.success, iom) => SomeAttemptOk(iom)
            /\ ~SomeAttemptOk(iom) => InList(fw.fail, iom)

\* ------------------------------------------------------------------------
\* Properties of the statuses addModels tracks and writes back (SpecAdd)
\* ------------------------------------------------------------------------

\* C26: when addModels has handled a log that holds a status of the error
\* category, the status tracked for its test is of the error category
C26_ErrorLogMarksTest ==
    [][(/\ am.pc = "loop" /\ am'.pc = "loop"
        /\ ReadBlock(NextBlock).model = "log"
        /\ \E i \in TokensIn(NextBlock) :
               TEST_STATUS_DICT_values[i] \in Range(error_status))
       => Tracked(am'.testStatus, ReadBlock(NextBlock).test + prevKey)
              \in Range(error_status)]_vars

\* the tests of the file that addModels has gone through
TestsDone ==
    {m \in Range(Emitted(BeforeFault(file.models))) : m.kind = "test"}

\* C27: when addModels has returned, every test whose tracked status is no
\* pass status has this status in the status field of its record
C27_StatusWrittenBack ==
    (am.pc = "done" /\ WellFormed(BeforeFault(file.models))) =>
        \A m \in TestsDone :
            LET key    == m.pk + prevKey
                status == Tracked(am.testStatus, key)
            IN  status \notin Range(pass_status) =>
                    \E i \in DOMAIN ReadRecords(am.models) :
                        /\ ReadRecords(am.models)[i].pk = key
                        /\ ReadRecords(am.models)[i].status = status


\* the tests whose tracked status the rewrite of lines 412-420 writes back
Rewritten ==
    {am.testStatus[j].key : j \in {k \in DOMAIN am.testStatus :
                                     am.testStatus[k].value \notin Range(pass_status)}}

\* C28: the rewrite after the loop changes, for each test K it writes
\* back, only the status field of the record whose pk is K: the records
\* read from the text after the rewrite are the records read before it,
\* except for the status of the records of the rewritten tests, also when
\* the record of K has no status field or no record has the pk K
C28_RewriteOnlyStatus ==
    [][(am.pc = "post" /\ am'.pc = "done") =>
         LET before == ReadRecords(am.models)
             after  == ReadRecords(am'.models)
         IN  /\ Len(after) = Len(before)
             /\ \A i \in DOMAIN before :
                    /\ [after[i] EXCEPT !.status = before[i].status] = before[i]
                    /\ after[i].status # before[i].status =>
                           before[i].pk \in Rewritten]_vars


\* ------------------------------------------------------------------------
\* Properties of the marking of the result files (SpecFaults)
\* ------------------------------------------------------------------------

\* the result files the call found without the trailer and holding it now:
\* the files this call has marked
MarkedByCall ==
    {f \in ResultFiles :
        /\ IsMarked(f)
        /\ \E idx \in DOMAIN cr.file_per_os :
               /\ f \in Range(vm_results[idx])
               /\ InList(cr.file_per_os[idx], f.name)}

\* C29: a result file is marked only when its records are part of an
\* archive that gets written: when combine_results has raised, and so has
\* written no archive, the call has marked no file
C29_MarkedOnlyWhenWritten ==
    cr.pc = "raised" => MarkedByCall = {}


\* ------------------------------------------------------------------------
\* Termination of the loop of addModels (SpecAdd)
\* ------------------------------------------------------------------------

\* C30: every iteration of the loop of addModels leaves the loop (by a
\* break or by raising) or leaves a remaining text strictly shorter than
\* the one it found, also for a text whose "{" or "}}" is missing, whose
\* braces are unbalanced or whose "}}" comes before its "{"; the length of
\* the text being a natural number, the loop ends on every input
C30_LoopShortens ==
    [][am.pc = "loop" =>
          \/ am'.pc \in {"post", "raised"}
          \/ am'.pc = "loop" /\ Len(am'.fileData) < Len(am.fileData)]_vars

\* a call has returned on a file in which a block without its start comes
\* between two models: the first model was emitted, and the loop was left
\* on a remaining text whose "}}" comes before its "{"
C30_Witness ==
    /\ am.pc = "done"
    /\ Len(file.models) = 3 /\ file.models[2].shape = "no_open"
    /\ Len(ReadRecords(am.models)) = 1
    /\ Find(am.fileData, "}}") # -1
    /\ Find(am.fileData, "}}") < Find(am.fileData, "{")

=============================================================================
